---- MODULE Spec2Model ----
(***************************************************************************)
(* libhash: the open-addressing hash table of src/src/hash_table.c.        *)
(*                                                                         *)
(* A table is the struct hash_table {capacity, base_capacity, count,       *)
(* entries}.  A slot of entries is a pointer: NULL, the address of the     *)
(* static HT_SENTINEL_ENTRY, or the address of a malloc'ed ht_entry.  The  *)
(* model keeps the pointer (field p) together with what it points to       *)
(* (fields key, value).  The heap is the set of live ht_entry addresses    *)
(* (each with its strdup'ed key) and the set of live value addresses.      *)
(*                                                                         *)
(* hash.h and prime.h are not part of the sources at hand: next_prime and  *)
(* h_resolve_hash are modelled from the specification (Capacity Sizer,     *)
(* Probe Sequence).                                                        *)
(***************************************************************************)
EXTENDS Integers, FiniteSets, Sequences, TLC

\* ht:    the hash_table struct (NoTable before ht_init and after teardown)
\* heap:  live: the malloc'ed ht_entry addresses not yet freed;
\*        vlive: the value addresses not yet freed (owning entry points);
\*        bad: a free has hit an address that was not live
\* phase: "none" before ht_init, "live", "hung" inside a call whose loop
\*        never ends, "freed" after the teardown
\* last:  the last call, its arguments and what it returned
\* nops:  the calls made since ht_init
VARIABLES ht, heap, phase, last, nops

vars == <<ht, heap, phase, last, nops>>

(* ------------------------------ bounds --------------------------------- *)

\* keys are 0 .. NumKeys-1
NumKeys == 3
\* values of the non-owning entry points are 1 .. NumVals
NumVals == 2
\* ht_init is called with 0 .. MaxBase
MaxBase == 4
\* calls made on one table (ht_init and the teardown not counted)
MaxOps == 4
\* calls made on one table through the owning entry points
MaxOpsPtr == 6
\* the distinct keys of the grow scenario are 0 .. NumGrowKeys-1
NumGrowKeys == 5

Keys == 0 .. (NumKeys - 1)
Values == 1 .. NumVals
BaseCaps == 0 .. MaxBase
GrowKeys == 0 .. (NumGrowKeys - 1)

(* ------------------------- program constants --------------------------- *)

HT_DEFAULT_CAPACITY == 50

\* a slot that holds the NULL pointer (calloc'ed, never used)
NULL == [p |-> 0, key |-> -1, value |-> 0]

\* a slot that holds &HT_SENTINEL_ENTRY, the static entry {NULL, NULL}
HT_SENTINEL_ENTRY == [p |-> -1, key |-> -1, value |-> 0]

\* what ht_search returns while its loop never ends
HANG == [p |-> -2, key |-> -1, value |-> 0]

(* ------------------- external collaborators (spec) --------------------- *)

is_prime(x) == x >= 2 /\ \A d \in 2 .. (x - 1) : x % d # 0

\* Capacity Sizer: the next prime >= x
RECURSIVE next_prime(_)
next_prime(x) == IF is_prime(x) THEN x ELSE next_prime(x + 1)

\* Probe Sequence: double hashing, the step coprime to the (prime) capacity.
\* Keys 2j and 2j+1 share their attempt-0 slot.
hash_a(key, capacity) == (key \div 2) % capacity

hash_b(key, capacity) == IF capacity <= 2 THEN 1 ELSE 1 + (key % (capacity - 1))

h_resolve_hash(key, capacity, attempt) ==
  (hash_a(key, capacity) + attempt * hash_b(key, capacity)) % capacity

(* -------------------------------- heap --------------------------------- *)

EmptyHeap == [live |-> {}, vlive |-> {}, bad |-> FALSE]

\* malloc: an address that is not live (the smallest one)
malloc(set) == CHOOSE a \in 1 .. (Cardinality(set) + 1) : a \notin set

IsEntry(r) == r.p > 0

\* ht_entry_init: malloc the entry, strdup the key
ht_entry_init(h, k, v) ==
  LET a == malloc(h.live)
  IN  [r |-> [p |-> a, key |-> k, value |-> v],
       h |-> [h EXCEPT !.live = @ \cup {a}]]

\* ht_delete_entry without its free(r->value)
ht_delete_entry_keeps_value(h, r, free_value) ==
  [live  |-> h.live \ {r.p},
   vlive |-> h.vlive,
   bad   |-> h.bad \/ r.p \notin h.live]

\* ht_delete_entry: free the key and the entry, and the value if free_value
ht_delete_entry(h, r, free_value) ==
  [live  |-> h.live \ {r.p},
   vlive |-> IF free_value THEN h.vlive \ {r.value} ELSE h.vlive,
   bad   |-> h.bad \/ r.p \notin h.live
                   \/ (free_value /\ r.value \notin h.vlive)]

(* ------------------------------- ht_init ------------------------------- *)

\* ht_init without its test of base_capacity: 0 stays 0
ht_init_no_default(base_capacity) ==
  LET c == next_prime(base_capacity)
  IN  [base_capacity |-> base_capacity,
       capacity      |-> c,
       count         |-> 0,
       entries       |-> [i \in 0 .. (c - 1) |-> NULL]]

ht_init(base_capacity) ==
  LET b == IF base_capacity = 0 THEN HT_DEFAULT_CAPACITY ELSE base_capacity
      c == next_prime(b)
  IN  [base_capacity |-> b,
       capacity      |-> c,
       count         |-> 0,
       entries       |-> [i \in 0 .. (c - 1) |-> NULL]]

Load(t) == (t.count * 100) \div t.capacity

(* ---------------------------- probe loops ------------------------------ *)
\* Each loop walks attempts i, i+1, ... and ends at a slot that is NULL or
\* the sentinel, or at an entry whose key matches.  The probe sequence has
\* period capacity: a loop that has not ended after capacity attempts never
\* ends (idx = -1).

\* the loop of __ht_insert without its strcmp: it ends at the first slot
\* that holds no entry
RECURSIVE InsertLoopNoStrcmp(_, _, _)
InsertLoopNoStrcmp(t, key, i) ==
  LET idx == h_resolve_hash(key, t.capacity, i)
  IN  IF ~IsEntry(t.entries[idx]) THEN [idx |-> idx, match |-> FALSE]
      ELSE IF i + 1 >= t.capacity THEN [idx |-> -1, match |-> FALSE]
      ELSE InsertLoopNoStrcmp(t, key, i + 1)

RECURSIVE InsertLoop(_, _, _)
InsertLoop(t, key, i) ==
  LET idx == h_resolve_hash(key, t.capacity, i)
      current_entry == t.entries[idx]
  IN  IF ~IsEntry(current_entry) THEN [idx |-> idx, match |-> FALSE]
      ELSE IF current_entry.key = key THEN [idx |-> idx, match |-> TRUE]
      ELSE IF i + 1 >= t.capacity THEN [idx |-> -1, match |-> FALSE]
      ELSE InsertLoop(t, key, i + 1)

\* the loop of __ht_delete with its strcmp inverted: it takes the first
\* entry whose key differs
RECURSIVE DeleteLoopOtherKey(_, _, _)
DeleteLoopOtherKey(t, key, i) ==
  LET idx == h_resolve_hash(key, t.capacity, i)
      current_entry == t.entries[idx]
  IN  IF ~IsEntry(current_entry) THEN [idx |-> idx, match |-> FALSE]
      ELSE IF current_entry.key # key THEN [idx |-> idx, match |-> TRUE]
      ELSE IF i + 1 >= t.capacity THEN [idx |-> -1, match |-> FALSE]
      ELSE DeleteLoopOtherKey(t, key, i + 1)

RECURSIVE DeleteLoop(_, _, _)
DeleteLoop(t, key, i) ==
  LET idx == h_resolve_hash(key, t.capacity, i)
      current_entry == t.entries[idx]
  IN  IF ~IsEntry(current_entry) THEN [idx |-> idx, match |-> FALSE]
      ELSE IF current_entry.key = key THEN [idx |-> idx, match |-> TRUE]
      ELSE IF i + 1 >= t.capacity THEN [idx |-> -1, match |-> FALSE]
      ELSE DeleteLoop(t, key, i + 1)

RECURSIVE SearchLoop(_, _, _)
SearchLoop(t, key, i) ==
  LET idx == h_resolve_hash(key, t.capacity, i)
      current_entry == t.entries[idx]
  IN  IF ~IsEntry(current_entry) THEN NULL
      ELSE IF current_entry.key = key THEN current_entry
      ELSE IF i + 1 >= t.capacity THEN HANG
      ELSE SearchLoop(t, key, i + 1)

(* ------------------------- teardown of a table ------------------------- *)

RECURSIVE DeleteTableLoop(_, _, _, _)
DeleteTableLoop(entries, h, i, free_value) ==
  IF i >= Len(entries) THEN h
  ELSE DeleteTableLoop(entries,
                       IF IsEntry(entries[i + 1])
                         THEN ht_delete_entry(h, entries[i + 1], free_value)
                         ELSE h,
                       i + 1, free_value)

\* the slots of a table as a sequence, slot 0 first
SlotSeq(t) == [j \in 1 .. t.capacity |-> t.entries[j - 1]]

\* __ht_delete_table: the heap after every entry of t is released
__ht_delete_table(t, h, free_value) ==
  DeleteTableLoop(SlotSeq(t), h, 0, free_value)

(* ---------------------- insert, resize, delete ------------------------- *)
\* The operators take and return a machine state
\*   [t: the table, h: the heap, hung: a loop of the call never ends]

RECURSIVE __ht_insert(_, _, _, _)
RECURSIVE ht_resize(_, _, _)
RECURSIVE ReinsertLoop(_, _, _, _)

\* the for loop of ht_resize: every entry of old goes into new_ht
ReinsertLoop(old, m, i, free_value) ==
  IF i >= old.capacity \/ m.hung THEN m
  ELSE LET r == old.entries[i]
       IN  ReinsertLoop(old,
                        IF IsEntry(r)
                          THEN __ht_insert(m, r.key, r.value, free_value)
                          ELSE m,
                        i + 1, free_value)

\* ht_resize without its ht->base_capacity = new_ht->base_capacity
ht_resize_keeps_base(m, base_capacity, free_value) ==
  IF base_capacity < 0 THEN m
  ELSE LET new_ht == ReinsertLoop(m.t,
                                  [t |-> ht_init(base_capacity), h |-> m.h,
                                   hung |-> FALSE],
                                  0, free_value)
           orphan == [new_ht.t EXCEPT !.capacity = m.t.capacity,
                                      !.entries = m.t.entries]
       IN  IF new_ht.hung THEN [m EXCEPT !.h = new_ht.h, !.hung = TRUE]
           ELSE [t    |-> [new_ht.t EXCEPT
                             !.base_capacity = m.t.base_capacity],
                 h    |-> __ht_delete_table(orphan, new_ht.h, FALSE),
                 hung |-> FALSE]

ht_resize(m, base_capacity, free_value) ==
  IF base_capacity < 0 THEN m
  ELSE LET new_ht == ReinsertLoop(m.t,
                                  [t |-> ht_init(base_capacity), h |-> m.h,
                                   hung |-> FALSE],
                                  0, free_value)
           orphan == [new_ht.t EXCEPT !.capacity = m.t.capacity,
                                      !.entries = m.t.entries]
       IN  IF new_ht.hung THEN [m EXCEPT !.h = new_ht.h, !.hung = TRUE]
           ELSE [t    |-> new_ht.t,
                 h    |-> __ht_delete_table(orphan, new_ht.h, FALSE),
                 hung |-> FALSE]

\* ht_resize_up with new_capacity = base_capacity + 1
ht_resize_up_plus_one(m, free_value) ==
  ht_resize(m, m.t.base_capacity + 1, free_value)

ht_resize_up(m, free_value) == ht_resize(m, m.t.base_capacity * 2, free_value)

ht_resize_down(m, free_value) ==
  ht_resize(m, m.t.base_capacity \div 2, free_value)

\* __ht_insert: the machine state after the call
__ht_insert(m0, key, value, free_value) ==
  LET m == IF Load(m0.t) > 70 THEN ht_resize_up(m0, free_value) ELSE m0
  IN  IF m.hung THEN m
      ELSE LET e == ht_entry_init(m.h, key, value)
               w == InsertLoop(m.t, key, 0)
           IN  IF w.idx < 0 THEN [m EXCEPT !.h = e.h, !.hung = TRUE]
               ELSE IF w.match
                 THEN [t    |-> [m.t EXCEPT !.entries[w.idx] = e.r],
                       h    |-> ht_delete_entry(e.h, m.t.entries[w.idx],
                                                free_value),
                       hung |-> FALSE]
                 ELSE [t    |-> [m.t EXCEPT !.entries[w.idx] = e.r,
                                            !.count = @ + 1],
                       h    |-> e.h,
                       hung |-> FALSE]

\* __ht_delete without its ht->count--
__ht_delete_no_count(m0, key, free_value) ==
  LET m == IF Load(m0.t) < 10 THEN ht_resize_down(m0, free_value) ELSE m0
  IN  IF m.hung THEN [m |-> m, ret |-> -1]
      ELSE LET w == DeleteLoop(m.t, key, 0)
           IN  IF w.idx < 0 THEN [m |-> [m EXCEPT !.hung = TRUE], ret |-> -1]
               ELSE IF w.match
                 THEN [m   |-> [t    |-> [m.t EXCEPT
                                            !.entries[w.idx] = HT_SENTINEL_ENTRY],
                                h    |-> ht_delete_entry(m.h, m.t.entries[w.idx],
                                                         free_value),
                                hung |-> FALSE],
                       ret |-> 1]
                 ELSE [m |-> m, ret |-> 0]

\* __ht_delete with NULL stored in the slot instead of &HT_SENTINEL_ENTRY
__ht_delete_writes_null(m0, key, free_value) ==
  LET m == IF Load(m0.t) < 10 THEN ht_resize_down(m0, free_value) ELSE m0
  IN  IF m.hung THEN [m |-> m, ret |-> -1]
      ELSE LET w == DeleteLoop(m.t, key, 0)
           IN  IF w.idx < 0 THEN [m |-> [m EXCEPT !.hung = TRUE], ret |-> -1]
               ELSE IF w.match
                 THEN [m   |-> [t    |-> [m.t EXCEPT
                                            !.entries[w.idx] = NULL,
                                            !.count = @ - 1],
                                h    |-> ht_delete_entry(m.h, m.t.entries[w.idx],
                                                         free_value),
                                hung |-> FALSE],
                       ret |-> 1]
                 ELSE [m |-> m, ret |-> 0]

\* __ht_delete: the machine state and the int returned
__ht_delete(m0, key, free_value) ==
  LET m == IF Load(m0.t) < 10 THEN ht_resize_down(m0, free_value) ELSE m0
  IN  IF m.hung THEN [m |-> m, ret |-> -1]
      ELSE LET w == DeleteLoop(m.t, key, 0)
           IN  IF w.idx < 0 THEN [m |-> [m EXCEPT !.hung = TRUE], ret |-> -1]
               ELSE IF w.match
                 THEN [m   |-> [t    |-> [m.t EXCEPT
                                            !.entries[w.idx] = HT_SENTINEL_ENTRY,
                                            !.count = @ - 1],
                                h    |-> ht_delete_entry(m.h, m.t.entries[w.idx],
                                                         free_value),
                                hung |-> FALSE],
                       ret |-> 1]
                 ELSE [m |-> m, ret |-> 0]

ht_search(t, key) == SearchLoop(t, key, 0)

\* ht_get without its test of r: r->value of a NULL r is a crash (-3)
ht_get_unchecked(t, key) ==
  LET r == ht_search(t, key)
  IN  IF r = HANG THEN -2 ELSE IF r # NULL THEN r.value ELSE -3

\* ht_get: the value of the entry found, 0 (NULL) if none, -2 while
\* ht_search never returns
ht_get(t, key) ==
  LET r == ht_search(t, key)
  IN  IF r = HANG THEN -2 ELSE IF r # NULL THEN r.value ELSE 0

(* ------------------------------ the machine ---------------------------- *)

NoTable == [base_capacity |-> 0, capacity |-> 0, count |-> 0, entries |-> <<>>]

NoOp == [op |-> "none", key |-> -1, value |-> 0, ret |-> 0]

M == [t |-> ht, h |-> heap, hung |-> FALSE]

Init ==
  /\ ht = NoTable
  /\ heap = EmptyHeap
  /\ phase = "none"
  /\ last = NoOp
  /\ nops = 0

Call ==
  /\ phase = "live"
  /\ nops < MaxOps
  /\ nops' = nops + 1

HtInit(b) ==
  /\ phase = "none"
  /\ UNCHANGED nops
  /\ ht' = ht_init(b)
  /\ phase' = "live"
  /\ last' = [op |-> "init", key |-> -1, value |-> b, ret |-> 0]
  /\ UNCHANGED heap

\* The program never compares or prints an entry's address: states are kept
\* up to a renaming of the entry addresses.  The entries the table holds
\* are numbered in slot order, the live entries it does not hold after them.
Renamed(m) ==
  LET e     == m.t.entries
      occ   == {i \in DOMAIN e : IsEntry(e[i])}
      held  == {e[i].p : i \in occ}
      first == [a \in held |->
                  CHOOSE i \in occ :
                    e[i].p = a /\ \A j \in occ : e[j].p = a => i <= j]
      rank  == [a \in held |->
                  1 + Cardinality({b \in held : first[b] < first[a]})]
      n     == Cardinality(held)
  IN  [t |-> [m.t EXCEPT !.entries =
                [i \in DOMAIN e |->
                   IF i \in occ THEN [e[i] EXCEPT !.p = rank[@]] ELSE e[i]]],
       h |-> [m.h EXCEPT !.live =
                {rank[a] : a \in m.h.live \cap held}
                  \cup (n + 1) .. (n + Cardinality(m.h.live \ held))],
       hung |-> m.hung]

Commit(m) ==
  LET r == Renamed(m)
  IN  /\ ht' = r.t
      /\ heap' = r.h
      /\ phase' = IF m.hung THEN "hung" ELSE "live"

HtInsert(k, v) ==
  /\ Call
  /\ Commit(__ht_insert(M, k, v, FALSE))
  /\ last' = [op |-> "insert", key |-> k, value |-> v, ret |-> 0]

HtDelete(k) ==
  /\ Call
  /\ LET d == __ht_delete(M, k, FALSE)
     IN  /\ Commit(d.m)
         /\ last' = [op |-> "delete", key |-> k, value |-> 0, ret |-> d.ret]

HtSearch(k) ==
  /\ Call
  /\ LET r == ht_search(ht, k)
     IN  /\ phase' = IF r = HANG THEN "hung" ELSE "live"
         /\ last' = [op |-> "search", key |-> k, value |-> 0, ret |-> r.p]
  /\ UNCHANGED <<ht, heap>>

HtGet(k) ==
  /\ Call
  /\ LET v == ht_get(ht, k)
     IN  /\ phase' = IF v = -2 THEN "hung" ELSE "live"
         /\ last' = [op |-> "get", key |-> k, value |-> 0, ret |-> v]
  /\ UNCHANGED <<ht, heap>>

HtDeleteTable ==
  /\ phase = "live"
  /\ UNCHANGED nops
  /\ heap' = __ht_delete_table(ht, heap, FALSE)
  /\ ht' = NoTable
  /\ phase' = "freed"
  /\ last' = [op |-> "delete_table", key |-> -1, value |-> 0, ret |-> 0]

Next ==
  \/ \E b \in BaseCaps : HtInit(b)
  \/ \E k \in Keys, v \in Values : HtInsert(k, v)
  \/ \E k \in Keys : HtDelete(k)
  \/ \E k \in Keys : HtSearch(k)
  \/ \E k \in Keys : HtGet(k)
  \/ HtDeleteTable

Spec == Init /\ [][Next]_vars

(* ---------------------- the owning entry points ------------------------ *)
\* The caller allocates the value it hands to ht_insert_ptr.

CallPtr ==
  /\ phase = "live"
  /\ nops < MaxOpsPtr
  /\ nops' = nops + 1

HtInsertPtr(k) ==
  /\ CallPtr
  /\ LET v == malloc(heap.vlive)
         m == [M EXCEPT !.h.vlive = @ \cup {v}]
     IN  /\ Commit(__ht_insert(m, k, v, TRUE))
         /\ last' = [op |-> "insert", key |-> k, value |-> v, ret |-> 0]

HtDeletePtr(k) ==
  /\ CallPtr
  /\ LET d == __ht_delete(M, k, TRUE)
     IN  /\ Commit(d.m)
         /\ last' = [op |-> "delete", key |-> k, value |-> 0, ret |-> d.ret]

HtDeleteTablePtr ==
  /\ phase = "live"
  /\ UNCHANGED nops
  /\ heap' = __ht_delete_table(ht, heap, TRUE)
  /\ ht' = NoTable
  /\ phase' = "freed"
  /\ last' = [op |-> "delete_table", key |-> -1, value |-> 0, ret |-> 0]

NextOwn ==
  \/ \E b \in BaseCaps : HtInit(b)
  \/ \E k \in Keys : HtInsertPtr(k)
  \/ \E k \in Keys : HtDeletePtr(k)
  \/ HtDeleteTablePtr

SpecOwn == Init /\ [][NextOwn]_vars

(* ------------------------- the grow scenario --------------------------- *)
\* A table is created and keys it does not hold yet are inserted, key k
\* with the value k + 1; nothing is deleted.

HtInsertNew(k) ==
  /\ phase = "live"
  /\ \A i \in DOMAIN ht.entries : ht.entries[i].key # k
  /\ nops' = nops + 1
  /\ Commit(__ht_insert(M, k, k + 1, FALSE))
  /\ last' = [op |-> "insert", key |-> k, value |-> k + 1, ret |-> 0]

NextGrow ==
  \/ \E b \in BaseCaps : HtInit(b)
  \/ \E k \in GrowKeys : HtInsertNew(k)

SpecGrow == Init /\ [][NextGrow]_vars

(* ------------------------------ vocabulary ----------------------------- *)

Slots(t) == 0 .. (t.capacity - 1)

Occupied(t) == {i \in Slots(t) : IsEntry(t.entries[i])}

OccupiedKeys(t) == {t.entries[i].key : i \in Occupied(t)}

Tombstones(t) == {i \in Slots(t) : t.entries[i] = HT_SENTINEL_ENTRY}

Returned == phase = "live"

(* -------------------------------- claims ------------------------------- *)

\* C1: tombstone reachability.  In every state reachable through
\* Create/Insert/Delete, every key held by an Occupied slot is found by
\* ht_search (a tombstone met while probing does not end the chain).
C1_TombstoneReachability ==
  Returned =>
    \A i \in Occupied(ht) :
      LET r == ht_search(ht, ht.entries[i].key)
      IN  IsEntry(r) /\ r.key = ht.entries[i].key

\* C2: no duplicate keys.  No two Occupied slots hold the same key, so the
\* number of distinct keys in Occupied slots equals count.
C2_NoDuplicateKeys ==
  Returned =>
    /\ \A i, j \in Occupied(ht) :
         ht.entries[i].key = ht.entries[j].key => i = j
    /\ Cardinality(OccupiedKeys(ht)) = ht.count

\* C3: round trip.  After an Insert(k, v) that has returned (a new entry, an
\* overwrite, or a grow-resize first), Get(k) returns v.
C3_RoundTrip ==
  (Returned /\ last.op = "insert") => ht_get(ht, last.key) = last.value

\* C3 happens: an Insert has returned after a grow-resize (base_capacity 3
\* has become 6) and an overwrite (count is still 3), and Get returns its value
C3_Witness ==
  /\ Returned
  /\ last.op = "insert"
  /\ ht.base_capacity = 6
  /\ ht.count = 3
  /\ ht_get(ht, last.key) = last.value

\* C8: termination.  Every call of Insert, Search, Get and Delete returns:
\* no probe loop runs forever.
C8_Termination == phase # "hung"

\* C4: deletion of a present key.  After an Insert(k, v) that has returned,
\* Delete(k) returns 1 and leaves count one lower, Search(k) and Get(k) then
\* report not-found, and a second Delete(k) returns 0.
C4_DeletionCorrectness ==
  (Returned /\ last.op = "insert") =>
    LET d1 == __ht_delete(M, last.key, FALSE)
        d2 == __ht_delete(d1.m, last.key, FALSE)
    IN  /\ d1.ret = 1
        /\ d1.m.t.count = ht.count - 1
        /\ ht_search(d1.m.t, last.key) = NULL
        /\ ht_get(d1.m.t, last.key) = 0
        /\ d2.ret = 0

C6_Overwrite ==
  (Returned /\ last.op = "insert") =>
    \A v2 \in Values \ {last.value} :
      LET m2 == __ht_insert(M, last.key, v2, FALSE)
      IN  /\ ~m2.hung
          /\ m2.t.count = ht.count
          /\ ht_get(m2.t, last.key) = v2

\* what a resize from m to r keeps: count, and the value Get returns for
\* every key it returned a value for
ResizePreserves(m, r) ==
  /\ ~r.hung
  /\ r.t.count = m.t.count
  /\ \A k \in Keys :
       ht_get(m.t, k) > 0 => ht_get(r.t, k) = ht_get(m.t, k)

\* C7: resize preserves membership.  Whenever an Insert triggers a
\* grow-resize (load > 70) or a Delete a shrink-resize (load < 10), the
\* resize step keeps count and every key's value.
C7_ResizePreservesMembership ==
  Returned =>
    /\ Load(ht) > 70 => ResizePreserves(M, ht_resize_up(M, FALSE))
    /\ Load(ht) < 10 => ResizePreserves(M, ht_resize_down(M, FALSE))

\* C9: exactly-once release.  Through the owning entry points, no entry and
\* no value is released twice; no Occupied slot of the live table refers to
\* a released entry or value; and after Teardown every key copy and every
\* inserted value has been released.
C9_ExactlyOnceRelease ==
  /\ ~heap.bad
  /\ phase = "live" =>
       /\ \A i \in Occupied(ht) :
            /\ ht.entries[i].p \in heap.live
            /\ ht.entries[i].value \in heap.vlive
       /\ \A i, j \in Occupied(ht) :
            (i # j) => /\ ht.entries[i].p # ht.entries[j].p
                       /\ ht.entries[i].value # ht.entries[j].value
       /\ heap.live = {ht.entries[i].p : i \in Occupied(ht)}
       /\ heap.vlive = {ht.entries[i].value : i \in Occupied(ht)}
  /\ phase = "freed" => (heap.live = {} /\ heap.vlive = {})

\* C9 happens: the table has been torn down after MaxOpsPtr calls
C9_Witness ==
  /\ phase = "freed"
  /\ nops = MaxOpsPtr
  /\ heap = EmptyHeap

C11_Create ==
  (phase = "live" /\ last.op = "init") =>
    /\ last.value > 0 =>
         /\ ht.base_capacity = last.value
         /\ ht.capacity = next_prime(last.value)
    /\ last.value = 0 => ht = ht_init(HT_DEFAULT_CAPACITY)
    /\ ht.count = 0
    /\ DOMAIN ht.entries = Slots(ht)
    /\ \A i \in Slots(ht) : ht.entries[i] = NULL

\* C11 happens: ht_init(0) has returned a table of capacity 53
C11_Witness ==
  /\ phase = "live"
  /\ last.op = "init"
  /\ last.value = 0
  /\ ht.capacity = 53
  /\ nops = 0

\* the probe chain of key has a tombstone before the entry that holds key:
\* attempt j reaches an entry with that key, no attempt before j reaches a
\* NULL slot, and one of them reaches the sentinel
TombstoneBeforeMatch(t, key) ==
  \E j \in Slots(t) :
    LET at(a) == t.entries[h_resolve_hash(key, t.capacity, a)]
    IN  /\ IsEntry(at(j)) /\ at(j).key = key
        /\ \A a \in 0 .. (j - 1) : at(a) # NULL
        /\ \E a \in 0 .. (j - 1) : at(a) = HT_SENTINEL_ENTRY

\* C12: match precedence on Insert.  When the chain of k has a tombstone
\* before the Occupied slot that holds k, Insert(k, v) (no resize) overwrites
\* that slot: count and the tombstones stay as they were, and k is held by
\* one slot only.
C12_MatchPrecedence ==
  Returned =>
    \A k \in Keys, v \in Values :
      (Load(ht) <= 70 /\ TombstoneBeforeMatch(ht, k)) =>
        LET m2 == __ht_insert(M, k, v, FALSE)
        IN  /\ ~m2.hung
            /\ m2.t.count = ht.count
            /\ Tombstones(m2.t) = Tombstones(ht)
            /\ Cardinality({i \in Occupied(m2.t) : m2.t.entries[i].key = k}) = 1

C14_ShrinkPolicy ==
  [][(last'.op = "delete" /\ nops' = nops + 1 /\ phase' = "live") =>
       LET resized == Load(ht) < 10
       IN  /\ resized => /\ ht'.base_capacity = ht.base_capacity \div 2
                         /\ ht'.base_capacity <= ht.base_capacity
                         /\ ht'.capacity <= ht.capacity
           /\ ~resized => /\ ht'.base_capacity = ht.base_capacity
                          /\ ht'.capacity = ht.capacity]_vars

\* C15: free slot guarantee.  After every operation count < capacity, and
\* when an Insert starts probing (after the grow-resize it may have
\* triggered) at least one slot of the table is not Occupied.
C15_FreeSlotGuarantee ==
  Returned =>
    /\ ht.count < ht.capacity
    /\ LET m == IF Load(ht) > 70 THEN ht_resize_up(M, FALSE) ELSE M
       IN  ~m.hung => Occupied(m.t) # Slots(m.t)

\* C16: count invariant.  In every reachable state count is the number of
\* Occupied slots (tombstones and NULL slots are not counted), and
\* 0 <= count <= capacity.
C16_CountInvariant ==
  phase \in {"live", "hung"} =>
    /\ ht.count = Cardinality(Occupied(ht))
    /\ 0 <= ht.count
    /\ ht.count <= ht.capacity

\* C16 happens: after inserts and a Delete the table holds two entries and
\* a tombstone, and count is 2
C16_Witness ==
  /\ Returned
  /\ last.op = "delete"
  /\ last.ret = 1
  /\ Tombstones(ht) # {}
  /\ Cardinality(Occupied(ht)) = 2
  /\ ht.count = 2

\* the capacity invariant of a table
CapacityOk(t) ==
  /\ t.capacity = next_prime(t.base_capacity)
  /\ DOMAIN t.entries = 0 .. (t.capacity - 1)

\* C17: capacity invariant.  In every reachable state, and right after
\* any grow- or shrink-resize, capacity is next_prime(base_capacity) and the
\* slot store has exactly capacity slots.
C17_CapacityInvariant ==
  phase \in {"live", "hung"} =>
    /\ CapacityOk(ht)
    /\ CapacityOk(ht_resize_up(M, FALSE).t)
    /\ CapacityOk(ht_resize_down(M, FALSE).t)

\* C17 happens: a Delete has shrunk the table created by ht_init(0) from
\* base_capacity 50 to 25 (capacity 53 to 29), with an entry moved
C17_Witness ==
  /\ Returned
  /\ last.op = "delete"
  /\ ht.base_capacity = 25
  /\ ht.capacity = 29
  /\ ht.count >= 1

\* C18: Delete frame.  A Delete(k) that triggers no resize and finds k
\* changes exactly one slot, which held an entry with key k and now holds
\* the sentinel (not NULL), and decrements count by 1; every other slot,
\* capacity and base_capacity are as they were.
C18_DeleteFrame ==
  Returned =>
    \A k \in Keys :
      LET d == __ht_delete(M, k, FALSE)
          changed == {i \in Slots(ht) : d.m.t.entries[i] # ht.entries[i]}
      IN  (Load(ht) >= 10 /\ d.ret = 1) =>
            /\ Cardinality(changed) = 1
            /\ \A i \in changed :
                 /\ IsEntry(ht.entries[i])
                 /\ ht.entries[i].key = k
                 /\ d.m.t.entries[i] = HT_SENTINEL_ENTRY
                 /\ d.m.t.entries[i] # NULL
            /\ d.m.t.count = ht.count - 1
            /\ d.m.t.capacity = ht.capacity
            /\ d.m.t.base_capacity = ht.base_capacity
            /\ DOMAIN d.m.t.entries = DOMAIN ht.entries

\* C18 happens: a Delete without a resize (capacity 5, three entries at
\* entry) has returned 1 and left one tombstone and two entries
C18_Witness ==
  /\ Returned
  /\ last.op = "delete"
  /\ last.ret = 1
  /\ ht.capacity = 5
  /\ Cardinality(Tombstones(ht)) = 1
  /\ ht.count = 2

\* what a resize from m to r must do with the values: none released, each
\* value of an Occupied slot of m held by exactly one Occupied slot of r,
\* and no tombstone in r
ResizeMoves(m, r) ==
  ~r.hung =>
    /\ ~r.h.bad
    /\ \A i \in Occupied(m.t) :
         /\ m.t.entries[i].value \in r.h.vlive
         /\ Cardinality({j \in Occupied(r.t) :
                           r.t.entries[j].value = m.t.entries[i].value}) = 1
    /\ Tombstones(r.t) = {}

\* C19: resize moves, never releases.  Whenever an Insert would grow the
\* table (load > 70) or a Delete shrink it (load < 10), the resize releases
\* no value held by an Occupied slot, every such value is then held by
\* exactly one Occupied slot of the new slot store, and the new slot store
\* has no tombstone.
C19_ResizeMoves ==
  Returned =>
    /\ Load(ht) > 70 => ResizeMoves(M, ht_resize_up(M, TRUE))
    /\ Load(ht) < 10 => ResizeMoves(M, ht_resize_down(M, TRUE))

\* C20: absent stays absent.  When ht_search(k) reports not-found, no
\* Insert or Delete of another key that returns, whatever resize it
\* triggers, makes ht_search(k) find an entry.
C20_AbsentStaysAbsent ==
  [][(last'.op \in {"insert", "delete"} /\ nops' = nops + 1
        /\ phase' = "live")
       => \A k \in Keys \ {last'.key} :
            ht_search(ht, k) = NULL => ~IsEntry(ht_search(ht', k))]_vars

====
